---- MODULE Spec2Model ----
(***************************************************************************)
(* Worklog generator: scripts/generate_worklog.py (month mode and day mode) *)
(* and .github/scripts/summarize_commits.py (daily script).                 *)
(*                                                                          *)
(* Text is a sequence of tokens.  Characters on which the code's matching   *)
(* depends ("#", blanks, newlines, backslashes, digits, "|", ".") are one    *)
(* token each; a literal the code only ever emits or matches whole is one    *)
(* token.  The em dash of the source is written <emdash>.  The model covers  *)
(* January 2026, timestamps on the hour and time-zone offsets in hours.      *)
(***************************************************************************)
EXTENDS Integers, Sequences, FiniteSets, TLC

VARIABLES
    fileExists,   \* worklogs/2026-01.md exists
    file,         \* its content
    template,     \* WORKLOG-TEMPLATE.md: NoFile or its content
    assets,       \* sorted file names under assets/2026-01/
    repo,         \* the commits, in the order git log lists them
    gitLogOk,     \* the commit-range query exits with status 0
    filesOf,      \* sha -> the changed-files query: its status and the files
    statOf,       \* sha -> the short-stat query: its status and the numbers of the line
    bodyOf,       \* sha -> the message-body query: its status and the lines after the subject
    authorFilter, \* WORKLOG_AUTHOR_EMAIL or WORKLOG_AUTHOR of the daily script; <<>> if unset
    localTz,      \* offset of the machine's time zone, in hours
    argDay,       \* day mode: the day of --day; the target date of the daily script
    dayContent,   \* the argument day_content of update_day_in_file
    mode,         \* the mode of the last invocation: "day", "month" or "none"
    runs,         \* invocations so far
    outcome,      \* what the last invocation did
    printed,      \* the diagnostic the last invocation printed, or "none"
    rendered,     \* the text the last invocation rendered
    file0,        \* the file before the last invocation: <<exists, content>>
    file1,        \* the file after the first invocation: <<exists, content>>
    stats         \* the last result of compute_stats_for_commits

vars == <<fileExists, file, template, assets, repo, gitLogOk, filesOf, statOf,
          bodyOf, authorFilter, localTz, argDay, dayContent, mode, runs, outcome, printed, rendered,
          file0, file1, stats>>

----------------------------------------------------------------------------
(* Bounds *)

MaxSections == 2
MaxSubjLen == 2
MaxRuns == 2
MaxCommits == 2

----------------------------------------------------------------------------
(* Tokens and text helpers *)

NL == "\n"
BS == "\\"
SepTok == " <emdash> Commits summary"
DashTok == " <emdash> "
NoFile == <<"<no file>">>
\* a git query that exited with an error: no output
FilesFail == [ok |-> FALSE, names |-> <<>>]
StatFail == [ok |-> FALSE, files |-> 0, ins |-> 0, del |-> 0]

FilesOk(names) == [ok |-> TRUE, names |-> names]

BodyFail == [ok |-> FALSE, lines |-> <<>>]

BodyOk(lines) == [ok |-> TRUE, lines |-> lines]

StatOk(f, i, d) == [ok |-> TRUE, files |-> f, ins |-> i, del |-> d]

Digits == <<"0", "1", "2", "3", "4", "5", "6", "7", "8", "9">>

Digit(n) == Digits[n + 1]

IsDigit(c) == \E k \in 1..10 : Digits[k] = c

DigitVal(c) == (CHOOSE k \in 1..10 : Digits[k] = c) - 1

RECURSIVE Str(_)
\* str(n) of a non-negative integer, as f-strings format it
Str(n) == IF n < 10 THEN <<Digit(n)>> ELSE Str(n \div 10) \o <<Digit(n % 10)>>

TwoDigits(n) == <<Digit(n \div 10), Digit(n % 10)>>

\* F applied to the value of v, which is computed once
With(v, F(_)) == CHOOSE r \in {F(x) : x \in {v}} : TRUE

Min(S) == CHOOSE x \in S : \A y \in S : x <= y

Max(S) == CHOOSE x \in S : \A y \in S : x >= y

RECURSIVE Concat(_)
\* "".join(parts), joined by halves
Concat(parts) ==
    IF parts = <<>> THEN <<>>
    ELSE IF Len(parts) = 1 THEN parts[1]
    ELSE LET h == Len(parts) \div 2
         IN  Concat(SubSeq(parts, 1, h)) \o Concat(SubSeq(parts, h + 1, Len(parts)))

StartsWithAt(t, i, p) ==
    i >= 1 /\ i + Len(p) - 1 <= Len(t) /\ SubSeq(t, i, i + Len(p) - 1) = p

\* str.find: the least index >= i at which p occurs in t, or 0
FindSub(t, i, p) ==
    LET hits == {k \in i..Len(t) : StartsWithAt(t, k, p)}
    IN  IF hits = {} THEN 0 ELSE Min(hits)

\* str.replace of a one-token placeholder
ReplaceTok(t, tok, by) ==
    Concat([k \in 1..Len(t) |-> IF t[k] = tok THEN by ELSE <<t[k]>>])

\* \s of the re module, over the tokens of the model
IsWs(c) == c \in {" ", "  ", "    ", "\n", "\t"}

RECURSIVE SkipWs(_, _)
SkipWs(t, i) == IF i <= Len(t) /\ IsWs(t[i]) THEN SkipWs(t, i + 1) ELSE i

\* ^ under re.MULTILINE
AtLineStart(t, i) == i = 1 \/ (i >= 2 /\ i <= Len(t) + 1 /\ t[i - 1] = NL)

Hashes3 == <<"#", "#", "#">>

----------------------------------------------------------------------------
(* Dates *)

\* datetime.date.isoformat() for a day of January 2026
isoformat(d) == <<"2026-01-">> \o TwoDigits(d)

\* Mutant: the date and time are left in the offset the commit was made in.
astimezone_own(dt) == dt

\* datetime.astimezone(): the same instant on the machine's clock
astimezone(dt) ==
    LET inst == (dt.day - 1) * 24 + dt.hour - dt.off
        loc == inst + localTz
    IN  [day |-> (loc \div 24) + 1, hour |-> loc % 24, off |-> localTz]

\* strftime('%Y-%m-%d %H:%M:%S %z')
strftime(dt) ==
    isoformat(dt.day) \o <<" ">> \o TwoDigits(dt.hour) \o <<":00:00", " ">>
        \o <<(IF dt.off < 0 THEN "-" ELSE "+")>>
        \o TwoDigits(IF dt.off < 0 THEN 0 - dt.off ELSE dt.off) \o <<"00">>

----------------------------------------------------------------------------
(* git, as the scripts see it *)

ShaA == <<"a", "1", "b", "2", "c", "3", "d", "4">>
ShaB == <<"e", "5", "f", "6", "0", "7", "1", "8">>
Shas == {ShaA, ShaB}

ShortLen == 7
FilesShown == 20

Take(s, n) == SubSeq(s, 1, IF Len(s) < n THEN Len(s) ELSE n)

Plural(n) == IF n = 1 THEN <<>> ELSE <<"s">>

\* What `git show --shortstat` prints for a commit that changed st.files files with
\* st.ins insertions and st.del deletions; a clause whose number is 0 is left out.
ShortStatLine(st) ==
    IF st.files = 0 THEN <<>>
    ELSE <<" ">> \o Str(st.files) \o <<" ", "file">> \o Plural(st.files) \o <<" changed">>
         \o (IF st.ins = 0 THEN <<>>
             ELSE <<",", " ">> \o Str(st.ins) \o <<" ", "insertion">> \o Plural(st.ins) \o <<"(+)">>)
         \o (IF st.del = 0 THEN <<>>
             ELSE <<",", " ">> \o Str(st.del) \o <<" ", "deletion">> \o Plural(st.del) \o <<"(-)">>)
         \o <<NL>>

RECURSIVE SkipDigits(_, _)
SkipDigits(t, i) == IF i <= Len(t) /\ IsDigit(t[i]) THEN SkipDigits(t, i + 1) ELSE i

RECURSIVE DigitsVal(_)
\* int(m.group(1))
DigitsVal(ds) ==
    IF ds = <<>> THEN 0
    ELSE 10 * DigitsVal(SubSeq(ds, 1, Len(ds) - 1)) + DigitVal(ds[Len(ds)])

\* Mutant: the unit must be in the plural.
CountMatchesAtPlural(t, i, unit, tail) ==
    LET j == SkipDigits(t, i)
        k == SkipWs(t, j)
    IN  /\ j > i
        /\ k > j
        /\ k <= Len(t)
        /\ t[k] = unit
        /\ StartsWithAt(t, k + 1, <<"s", tail>>)

\* (\d+)\s+<unit>[s]?<tail> matched at index i
CountMatchesAt(t, i, unit, tail) ==
    LET j == SkipDigits(t, i)
        k == SkipWs(t, j)
    IN  /\ j > i
        /\ k > j
        /\ k <= Len(t)
        /\ t[k] = unit
        /\ \/ StartsWithAt(t, k + 1, <<"s", tail>>)
           \/ StartsWithAt(t, k + 1, <<tail>>)

\* re.search(r"(\d+)\s+<unit>[s]?<tail>", out): the number of the leftmost match,
\* or -1 for no match
SearchCount(t, unit, tail) ==
    With({i \in 1..Len(t) : CountMatchesAt(t, i, unit, tail)},
         LAMBDA hits : IF hits = {} THEN -1
                       ELSE With(Min(hits),
                                 LAMBDA m : DigitsVal(SubSeq(t, m, SkipDigits(t, m) - 1))))

\* the contribution of one commit to (files, insertions, deletions)
\* a count that matched, or 0
Matched(m) == IF m >= 0 THEN m ELSE 0

\* the three searches in the output of one short-stat query
ParseShortStat(out) ==
    << Matched(SearchCount(out, "file", " changed")),
       Matched(SearchCount(out, "insertion", "(+)")),
       Matched(SearchCount(out, "deletion", "(-)")) >>

\* the contribution of one commit to (files, insertions, deletions); a failed query
\* is skipped
StatsOfCommit(c) ==
    IF ~statOf[c.sha].ok THEN <<0, 0, 0>>
    ELSE With(ShortStatLine(statOf[c.sha]), ParseShortStat)

RECURSIVE SumStats(_)
SumStats(commits) ==
    IF commits = <<>> THEN <<0, 0, 0>>
    ELSE With(<<StatsOfCommit(Head(commits)), SumStats(Tail(commits))>>,
              LAMBDA p : <<p[1][1] + p[2][1], p[1][2] + p[2][2], p[1][3] + p[2][3]>>)

compute_stats_for_commits(commits) ==
    With(SumStats(commits),
         LAMBDA tot : [commits |-> Len(commits),
                       files_changed |-> tot[1],
                       insertions |-> tot[2],
                       deletions |-> tot[3]])

FilesQueryFails(commits) == \E k \in 1..Len(commits) : ~filesOf[commits[k].sha].ok

\* the non-blank lines of `git show --name-only`
get_files_for_commit(sha) == filesOf[sha].names

----------------------------------------------------------------------------
(* Header and assets *)

FallbackHeader == <<"#", " ", "{Month YYYY}", " <emdash> Monthly Worklog", NL, NL>>

load_template == IF template = NoFile THEN FallbackHeader ELSE template

\* strftime("%B %Y") of January 2026 replaces the placeholder
format_month_header(tpl) == ReplaceTok(tpl, "{Month YYYY}", <<"January 2026">>)

\* the names an assets directory may hold, in the order str.sort() gives them
AssetNames == << <<"2026-01-", "0", "1", "-demo", ".", "PNG">>,
                 <<"notes-", "2026-01-", "0", "2", ".", "txt">> >>

InSet(S, x) == x \in S

\* os.listdir, regular files only, sorted
find_assets_for_month == SelectSeq(AssetNames, LAMBDA fn : InSet(assets, fn))

find_assets_for_day(d) ==
    LET day_prefix == isoformat(d)
    IN  SelectSeq(find_assets_for_month,
                  LAMBDA fn : StartsWithAt(fn, 1, day_prefix) \/ FindSub(fn, 1, day_prefix) # 0)

\* str.lower() on the tokens an extension is made of
Lower(c) == IF c = "PNG" THEN "png" ELSE c

RECURSIVE LastDot(_, _)
LastDot(fn, i) == IF i = 0 THEN 0 ELSE IF fn[i] = "." THEN i ELSE LastDot(fn, i - 1)

\* fn.lower().rsplit('.', 1)[-1] if '.' in fn else ''
Ext(fn) ==
    LET k == LastDot(fn, Len(fn))
    IN  IF k = 0 THEN <<>> ELSE [i \in 1..(Len(fn) - k) |-> Lower(fn[k + i])]

ImageExts == {<<"png">>, <<"jpg">>, <<"jpeg">>, <<"gif">>, <<"webp">>}

AssetEntry(fn) ==
    LET url == <<"/assets/2026-01", "/">> \o fn
    IN  IF Ext(fn) \in ImageExts
        THEN <<"![">> \o fn \o <<"](">> \o url \o <<")", NL, NL>>
             \o <<"[View full image](">> \o url \o <<")", NL, NL>>
        ELSE <<"-", " ", "[">> \o fn \o <<"](">> \o url \o <<")", NL>>

RECURSIVE AssetEntries(_)
AssetEntries(files) ==
    IF files = <<>> THEN <<>> ELSE AssetEntry(Head(files)) \o AssetEntries(Tail(files))

assets_markdown_for_month(files) ==
    IF files = <<>> THEN <<>>
    ELSE <<"---", NL, "#", "#", " ", "Demos & Assets", NL, NL>> \o AssetEntries(files) \o <<NL>>

----------------------------------------------------------------------------
(* Rendering *)

Heading(day_str) == Hashes3 \o <<" ">> \o day_str \o <<SepTok>>

\* - <short> <emdash> <subject> (<author>)\n
Bullet(c) ==
    <<"-", " ">> \o Take(c.sha, ShortLen) \o <<DashTok>> \o c.message
        \o <<" ", "(">> \o c.author \o <<")", NL>>

RECURSIVE FileLines(_)
FileLines(files) ==
    IF files = <<>> THEN <<>>
    ELSE <<"    ", "-", " ">> \o Head(files) \o <<NL>> \o FileLines(Tail(files))

\* one entry of the Details list (generate_worklog.py)
Detail(c) ==
    LET files == Take(get_files_for_commit(c.sha), FilesShown)
    IN  Bullet(c)
        \o <<"  ", "-", " ", "Date: ">> \o strftime(astimezone(c.date)) \o <<NL>>
        \o (IF files # <<>>
            THEN <<"  ", "-", " ", "Files:", NL>> \o FileLines(files)
            ELSE <<"  ", "-", " ", "Files: (none)", NL>>)
        \o <<"  ", "-", " ", "Message:", NL>>
        \o <<"    ", "-", " ">> \o c.message \o <<NL, NL>>

RECURSIVE Bullets(_)
Bullets(commits) ==
    IF commits = <<>> THEN <<>> ELSE Bullet(Head(commits)) \o Bullets(Tail(commits))

RECURSIVE Details(_)
Details(commits) ==
    IF commits = <<>> THEN <<>> ELSE Detail(Head(commits)) \o Details(Tail(commits))

DetailsHeading == <<NL, "#", "#", "#", "#", " ", "Details", NL, NL>>

StatsLine(st) ==
    IF st.commits > 0
    THEN <<"**Stats:** ">> \o Str(st.commits) \o <<" commit">>
         \o (IF st.commits # 1 THEN <<"s">> ELSE <<>>)
         \o <<DashTok>> \o Str(st.files_changed) \o <<" files changed">>
         \o <<DashTok, "+">> \o Str(st.insertions) \o <<" / -">> \o Str(st.deletions)
         \o <<NL, NL>>
    ELSE <<"**Stats:** 0 commits <emdash> 0 files changed <emdash> +0 / -0", NL, NL>>

\* The text build_day_markdown returns when no changed-files query fails.
build_day_markdown(d, commits) ==
        Heading(isoformat(d)) \o <<NL, NL>>
        \o With(compute_stats_for_commits(commits), StatsLine)
        \o Bullets(commits)
        \o DetailsHeading
        \o Details(commits)
        \o assets_markdown_for_month(find_assets_for_day(d))

----------------------------------------------------------------------------
(* Day mode: the section of a day, found and replaced by regular expression *)

\* Mutant: the date is not required to be followed by the separator text.
DayHeadingEndNoSep(t, i, day_str) ==
    LET j == SkipWs(t, i + 3)
    IN  IF /\ AtLineStart(t, i)
           /\ StartsWithAt(t, i, Hashes3)
           /\ j > i + 3
           /\ StartsWithAt(t, j, day_str)
        THEN j + Len(day_str)
        ELSE 0

\* ^(###\s+<day> <emdash> Commits summary) matched at index i: the index after the
\* match, or 0.  The date starts with a digit, so \s+ takes all the blanks.
DayHeadingEnd(t, i, day_str) ==
    LET j == SkipWs(t, i + 3)
    IN  IF /\ AtLineStart(t, i)
           /\ StartsWithAt(t, i, Hashes3)
           /\ j > i + 3
           /\ StartsWithAt(t, j, day_str \o <<SepTok>>)
        THEN j + Len(day_str) + 1
        ELSE 0

\* .*?(?=^###\s|\Z) from index k: the least index at which the lookahead holds
SectionEnd(t, k) ==
    Min({Len(t) + 1} \cup
        {e \in k..Len(t) : /\ AtLineStart(t, e)
                           /\ StartsWithAt(t, e, Hashes3)
                           /\ e + 3 <= Len(t)
                           /\ IsWs(t[e + 3])})

\* re.search(pattern, text) from index i: the start of the leftmost match, or 0
SearchDay(t, i, day_str) ==
    LET hits == {m \in i..Len(t) : DayHeadingEnd(t, m, day_str) # 0}
    IN  IF hits = {} THEN 0 ELSE Min(hits)

\* The replacement templates of re.sub, over the tokens a rendered section holds
\* after a backslash: a subject character, a blank or a newline.
AsciiLetters == {"x", "n"}

IsEscape(c) == c \in {"n", BS}

EscapeOf(c) == IF c = "n" THEN NL ELSE BS

\* The template is read left to right, a backslash taking the token after it: the
\* token at i is taken by a backslash iff an odd number of backslashes precede it.
RECURSIVE BackslashesUpTo(_, _)
BackslashesUpTo(tpl, i) ==
    IF i >= 1 /\ tpl[i] = BS THEN 1 + BackslashesUpTo(tpl, i - 1) ELSE 0

BackslashesBefore(tpl, i) == BackslashesUpTo(tpl, i - 1)

Taken(tpl, i) == BackslashesBefore(tpl, i) % 2 = 1

\* the template parses: no backslash at the end, none before a letter that is no escape
TemplateOk(tpl) ==
    \A i \in 1..Len(tpl) :
        (tpl[i] = BS /\ ~Taken(tpl, i)) =>
            /\ i < Len(tpl)
            /\ (IsEscape(tpl[i + 1]) \/ tpl[i + 1] \notin AsciiLetters)

\* what a parsed template stands for: escapes are processed, \<other> is kept
Expand(tpl) ==
    Concat([i \in 1..Len(tpl) |->
              IF Taken(tpl, i) THEN <<>>
              ELSE IF tpl[i] # BS THEN <<tpl[i]>>
              ELSE IF IsEscape(tpl[i + 1]) THEN <<EscapeOf(tpl[i + 1])>>
              ELSE <<BS, tpl[i + 1]>>])

RECURSIVE re_sub(_, _, _, _)
\* re.sub(pattern, repl, text) from index i: every match, left to right
\* (repl is the expansion of the template, which holds no group reference)
re_sub(t, i, day_str, repl) ==
    With(SearchDay(t, i, day_str),
         LAMBDA m :
            IF m = 0 THEN SubSeq(t, i, Len(t))
            ELSE SubSeq(t, i, m - 1) \o repl
                 \o With(SectionEnd(t, DayHeadingEnd(t, m, day_str)),
                         LAMBDA e : re_sub(t, e, day_str, repl)))

\* the file exists: replace the day's section if present, otherwise append
UpdateExisting(text, day_str, day_content) ==
    IF SearchDay(text, 1, day_str) # 0
    THEN IF TemplateOk(day_content)
         THEN [exists |-> TRUE,
               text |-> With(Expand(day_content),
                             LAMBDA repl : re_sub(text, 1, day_str, repl)),
               outcome |-> "replaced"]
         ELSE [exists |-> TRUE, text |-> text, outcome |-> "re.error"]
    ELSE [exists |-> TRUE, text |-> text \o <<NL>> \o day_content, outcome |-> "appended"]

update_day_in_file(d, day_content) ==
    IF ~fileExists
    THEN [exists |-> TRUE,
          text |-> format_month_header(load_template) \o <<NL>> \o day_content,
          outcome |-> "created"]
    ELSE With(isoformat(d), LAMBDA day_str : UpdateExisting(file, day_str, day_content))

----------------------------------------------------------------------------
(* Inputs *)

SubjChars == {"x", "n", BS}

Subjects == UNION {[1..n -> SubjChars] : n \in 0..MaxSubjLen}

Author == <<"Al">>

Commit(sha, day, hour, off, msg) ==
    [sha |-> sha, date |-> [day |-> day, hour |-> hour, off |-> off],
     author |-> Author, message |-> msg]

OldBody == <<"-", " ", "old", NL>> \o DetailsHeading \o <<"-", " ", "old", NL, NL>>
KeptBody == <<"-", " ", "kept", NL, NL>>

\* the sections a month file may hold: two days, and a date that extends day 1's
SectionChoices ==
    { Heading(isoformat(1)) \o <<NL, NL>> \o OldBody,
      Heading(isoformat(1)) \o <<NL>> \o KeptBody,
      Heading(isoformat(2)) \o <<NL, NL>> \o KeptBody,
      Heading(isoformat(1) \o <<"0">>) \o <<NL, NL>> \o KeptBody }

ExistingHeader == format_month_header(FallbackHeader) \o <<NL>>

MonthFiles ==
    { ExistingHeader \o Concat(ss) :
        ss \in UNION {[1..n -> SectionChoices] : n \in 0..MaxSections} }

TemplateText == <<"#", " ", "Worklog of ", "{Month YYYY}", NL, NL, "Notes.", NL>>

FileA == <<"src/a.py">>
FileB == <<"docs/b.md">>

NoStats == [commits |-> 0, files_changed |-> 0, insertions |-> 0, deletions |-> 0]

----------------------------------------------------------------------------
(* Specification SpecUpdate: update_day_in_file called again and again with the
   section build_day_markdown rendered for one day *)

InitUpdate ==
    /\ fileExists \in BOOLEAN
    /\ file \in (IF fileExists THEN MonthFiles ELSE {<<>>})
    \* the template is read only when the month file is created
    /\ template \in (IF fileExists THEN {NoFile} ELSE {NoFile, TemplateText})
    /\ assets \in {{}, {AssetNames[1]}}
    /\ argDay \in {1, 2}
    /\ \E msg \in Subjects :
          repo \in {<<>>, <<Commit(ShaA, argDay, 10, 0, msg)>>}
    /\ gitLogOk = TRUE
    /\ filesOf = [s \in Shas |-> FilesOk(<<FileA>>)]
    /\ statOf = [s \in Shas |-> StatOk(1, 2, 0)]
    /\ bodyOf = [s \in Shas |-> BodyOk(<<>>)]
    /\ authorFilter = <<>>
    /\ localTz = 0
    /\ dayContent = build_day_markdown(argDay, repo)
    /\ mode = "none"
    /\ runs = 0
    /\ outcome = "none"
    /\ printed = "none"
    /\ rendered = <<>>
    /\ file0 = <<fileExists, file>>
    /\ file1 = <<fileExists, file>>
    /\ stats = NoStats

UpdateDay ==
    /\ runs < MaxRuns
    /\ \E r \in {update_day_in_file(argDay, dayContent)} :
           /\ fileExists' = r.exists
           /\ file' = r.text
           /\ outcome' = r.outcome
           /\ file1' = IF runs = 0 THEN <<r.exists, r.text>> ELSE file1
    /\ file0' = <<fileExists, file>>
    /\ runs' = runs + 1
    /\ UNCHANGED <<template, assets, repo, gitLogOk, filesOf, statOf, bodyOf,
                   authorFilter, localTz, argDay, dayContent, mode, printed, rendered,
                   stats>>

NextUpdate == UpdateDay

SpecUpdate == InitUpdate /\ [][NextUpdate]_vars

----------------------------------------------------------------------------
(* A month file read line by line: a header, then the sections, each from a line
   that starts with "### " to the next such line.  The claims are stated on this
   reading, which shares nothing with the regular expression above. *)

SectionStarts(t) ==
    {i \in 1..Len(t) : AtLineStart(t, i) /\ StartsWithAt(t, i, Hashes3 \o <<" ">>)}

LineAt(t, i) == SubSeq(t, i, Min({Len(t) + 1} \cup {k \in i..Len(t) : t[k] = NL}) - 1)

\* the index after the section that starts at i
NextStart(t, starts, i) == Min({Len(t) + 1} \cup {k \in starts : k > i})

RECURSIVE SortedSeq(_)
SortedSeq(S) == IF S = {} THEN <<>> ELSE <<Min(S)>> \o SortedSeq(S \ {Min(S)})

HeaderOf(t, starts) == SubSeq(t, 1, Min({Len(t) + 1} \cup starts) - 1)

\* the header and, in order, the sections whose heading line is not that of day_str
PartsOf(t, starts, day_str) ==
    <<HeaderOf(t, starts)>> \o
    [k \in 1..Cardinality({i \in starts : LineAt(t, i) # Heading(day_str)}) |->
        With(SortedSeq({i \in starts : LineAt(t, i) # Heading(day_str)})[k],
             LAMBDA i : SubSeq(t, i, NextStart(t, starts, i) - 1))]

OtherParts(t, d) == With(SectionStarts(t), LAMBDA starts : PartsOf(t, starts, isoformat(d)))

\* the first section headed by the day, or <<>>
SectionOf(t, starts, day_str) ==
    With({i \in starts : LineAt(t, i) = Heading(day_str)},
         LAMBDA mine : IF mine = {} THEN <<>>
                       ELSE SubSeq(t, Min(mine), NextStart(t, starts, Min(mine)) - 1))

DaySection(t, d) == With(SectionStarts(t), LAMBDA starts : SectionOf(t, starts, isoformat(d)))

Wrote == outcome \in {"created", "appended", "replaced"}

\* C1: calling update_day_in_file twice with the same day and content leaves the
\* month file as one call left it.
C1_Idempotent == runs >= 2 => <<fileExists, file>> = file1

\* C2: a day-mode update changes only the sections headed by that day: the header
\* and every section headed by another date, a date that extends the day's text
\* included, are the same tokens before and after (an appended section comes
\* after the one newline that separates it from the old text).
C2_OtherSectionsUntouched ==
    (runs >= 1 /\ file0[1]) =>
        OtherParts(file, argDay) =
            OtherParts(IF outcome = "appended" THEN file0[2] \o <<NL>> ELSE file0[2], argDay)

\* C2 witness: the section of day 1 was replaced in a file that also holds a
\* section for the date 2026-01-010.
C2_Witness ==
    /\ runs >= 1
    /\ argDay = 1
    /\ outcome = "replaced"
    /\ file # file0[2]
    /\ FindSub(file0[2], 1, Heading(isoformat(1) \o <<"0">>)) # 0

\* C3: after update_day_in_file wrote the section of a day, the section read back
\* from the file (from its heading to the next "### " heading or the end) is the
\* rendered content, whatever the subject holds.
C3_RoundTrip == (runs >= 1 /\ Wrote) => DaySection(file, argDay) = dayContent

----------------------------------------------------------------------------
(* The daily script, .github/scripts/summarize_commits.py *)

Email == <<"al@example.org">>

\* one line of `git log --pretty=format:%H|%an|%ae|%ad|%s --date=iso`
LogLine(c) ==
    c.sha \o <<"|">> \o c.author \o <<"|">> \o Email \o <<"|">> \o strftime(c.date)
        \o <<"|">> \o c.message

\* the commits `git log --since=<day>T00:00:00 --until=<day>T23:59:59` lists: those
\* made on the day by the machine's clock
DailyLog(d) == SelectSeq(repo, LAMBDA c : astimezone(c.date).day = d)

\* str.split(sep, maxsplit) of a line whose separators are at the indices `bars`
FieldsAt(l, bars) ==
    [k \in 1..(Len(bars) + 1) |->
        SubSeq(l, IF k = 1 THEN 1 ELSE bars[k - 1] + 1,
                  IF k <= Len(bars) THEN bars[k] - 1 ELSE Len(l))]

Split(l, sep, maxsplit) ==
    With(Take(SortedSeq({i \in 1..Len(l) : l[i] = sep}), maxsplit),
         LAMBDA bars : FieldsAt(l, bars))

\* f'|{author}|' in l or l.split('|')[2] == author
AuthorMatches(l, author) ==
    \/ FindSub(l, 1, <<"|">> \o author \o <<"|">>) # 0
    \/ Split(l, "|", Len(l))[3] = author

DailyBullet(f) == <<"-", " ">> \o Take(f[1], ShortLen) \o <<DashTok>> \o f[5]
                      \o <<" ", "(">> \o f[2] \o <<")">>

RECURSIVE JoinLines(_)
\* "\n".join(bullets)
JoinLines(ls) ==
    IF ls = <<>> THEN <<>>
    ELSE IF Len(ls) = 1 THEN ls[1]
    ELSE ls[1] \o <<NL>> \o JoinLines(Tail(ls))

\* body_out.strip().splitlines(): the subject, then the lines after it
BodyLines(f) ==
    With(bodyOf[f[1]],
         LAMBDA b : IF ~b.ok THEN <<>>
                    ELSE IF f[5] = <<>> /\ b.lines = <<>> THEN <<>>
                    ELSE <<f[5]>> \o b.lines)

RECURSIVE Indented(_)
Indented(ls) ==
    IF ls = <<>> THEN <<>> ELSE <<"    ">> \o Head(ls) \o <<NL>> \o Indented(Tail(ls))

\* one entry of the Details block (summarize_commits.py); a failed query gives no
\* files, no body
DailyDetail(f) ==
    DailyBullet(f) \o <<NL>>
    \o <<"  ", "-", " ", "Date: ">> \o f[4] \o <<NL>>
    \o With(IF filesOf[f[1]].ok THEN filesOf[f[1]].names ELSE <<>>,
            LAMBDA files : IF files # <<>>
                           THEN <<"  ", "-", " ", "Files:", NL>> \o FileLines(files)
                           ELSE <<>>)
    \o With(BodyLines(f),
            LAMBDA ls : IF ls # <<>>
                        THEN <<"  ", "-", " ", "Message:", NL>> \o Indented(ls)
                        ELSE <<>>)
    \o <<NL>>

\* body = summary_block + details_block, for the parsed lines fs
DailyBody(target_date, fs) ==
    Heading(target_date) \o <<NL, NL>>
    \o JoinLines([k \in 1..Len(fs) |-> DailyBullet(fs[k])]) \o <<NL, NL>>
    \o <<"#", "#", "#", "#", " ", "Details", NL, NL>>
    \o Concat([k \in 1..Len(fs) |-> DailyDetail(fs[k])])

\* the month file as main reads it: an absent file is first created from the
\* template, taken as it is, or with a default title
DailyContent ==
    IF fileExists THEN file
    ELSE IF template # NoFile THEN template \o <<NL>>
    ELSE <<"#", " ", "Worklog - ", "2026-01", NL, NL>>

\* the block of the target date is cut out up to the next "\n### " and the new body
\* put after the marker; without a marker the body is appended
DailyMerge(content, start_marker, body) ==
    With(FindSub(content, 1, start_marker),
         LAMBDA at :
            IF at # 0
            THEN With(SubSeq(content, at + Len(start_marker), Len(content)),
                      LAMBDA rest :
                         With(FindSub(rest, 1, <<NL>> \o Hashes3 \o <<" ">>),
                              LAMBDA next_idx :
                                 SubSeq(content, 1, at - 1) \o start_marker \o <<NL, NL>>
                                 \o body
                                 \o (IF next_idx # 0
                                     THEN SubSeq(rest, next_idx + 1, Len(rest))
                                     ELSE <<>>)))
            ELSE content \o <<NL>> \o body)

\* main() of the daily script: what it prints and the file it leaves
summarize_commits(target_date, d) ==
    IF ~gitLogOk THEN [printed |-> "No commits or git error", wrote |-> FALSE, text |-> <<>>]
    ELSE With([k \in 1..Len(DailyLog(d)) |-> LogLine(DailyLog(d)[k])],
        LAMBDA output :
            IF output = <<>>
            THEN [printed |-> "No commits for", wrote |-> FALSE, text |-> <<>>]
            ELSE With(IF authorFilter # <<>>
                      THEN SelectSeq(output, LAMBDA l : AuthorMatches(l, authorFilter))
                      ELSE output,
                LAMBDA lines :
                    IF lines = <<>>
                    THEN [printed |-> "No commits for author on", wrote |-> FALSE,
                          text |-> <<>>]
                    ELSE [printed |-> "Updated worklog with detailed summary:",
                          wrote |-> TRUE,
                          text |-> DailyMerge(DailyContent, Heading(target_date),
                                     DailyBody(target_date,
                                        [k \in 1..Len(lines) |-> Split(lines[k], "|", 4)]))]))

\* the commits of a run: up to MaxCommits commits with different hashes
CommitSeqs(msgs, days, hours, offs) ==
    { cs \in UNION {[1..n -> {Commit(sha, day, h, o, m) :
                                sha \in Shas, day \in days, h \in hours,
                                o \in offs, m \in msgs}] : n \in 0..MaxCommits} :
        \A i, j \in 1..Len(cs) : i # j => cs[i].sha # cs[j].sha }

\* month files as the daily script leaves them: at most one section per date
DailyFiles ==
    { <<"#", " ", "Worklog - ", "2026-01", NL, NL>> \o Concat(ss) :
        ss \in { q \in UNION {[1..n -> SectionChoices] : n \in 0..MaxSections} :
                   \A i, j \in 1..Len(q) : i # j => LineAt(q[i], 1) # LineAt(q[j], 1) } }

InitDaily ==
    /\ fileExists \in BOOLEAN
    /\ file \in (IF fileExists THEN DailyFiles ELSE {<<>>})
    /\ template \in {NoFile, TemplateText}
    /\ assets = {}
    /\ argDay = 1
    /\ repo \in CommitSeqs({<<"x", "|", "y">>}, {1, 2}, {10}, {0})
    /\ gitLogOk \in BOOLEAN
    /\ \E fa \in {FilesFail, FilesOk(<<FileA>>)} :
          filesOf = [s \in Shas |-> IF s = ShaA THEN fa ELSE FilesOk(<<>>)]
    /\ statOf = [s \in Shas |-> StatOk(1, 2, 0)]
    /\ \E ba \in {BodyFail, BodyOk(<<<<"more">>>>)} :
          bodyOf = [s \in Shas |-> IF s = ShaA THEN ba ELSE BodyOk(<<>>)]
    /\ authorFilter \in {<<>>, Email, <<"Bo">>}
    /\ localTz = 0
    /\ dayContent = <<>>
    /\ mode = "none"
    /\ runs = 0
    /\ outcome = "none"
    /\ printed = "none"
    /\ rendered = <<>>
    /\ file0 = <<fileExists, file>>
    /\ file1 = <<fileExists, file>>
    /\ stats = NoStats

DailyRun ==
    /\ runs < MaxRuns + 1
    /\ \E r \in {summarize_commits(isoformat(argDay), argDay)} :
           /\ fileExists' = (fileExists \/ r.wrote)
           /\ file' = IF r.wrote THEN r.text ELSE file
           /\ outcome' = IF r.wrote THEN "updated" ELSE "returned"
           /\ printed' = r.printed
           /\ file1' = IF runs = 0 THEN <<fileExists \/ r.wrote,
                                         IF r.wrote THEN r.text ELSE file>>
                       ELSE file1
    /\ file0' = <<fileExists, file>>
    /\ runs' = runs + 1
    /\ UNCHANGED <<template, assets, repo, gitLogOk, filesOf, statOf, bodyOf,
                   authorFilter, localTz, argDay, dayContent, mode, rendered, stats>>

NextDaily == DailyRun

SpecDaily == InitDaily /\ [][NextDaily]_vars

HeadingLines(t, d) ==
    Cardinality({i \in 1..Len(t) : AtLineStart(t, i) /\ LineAt(t, i) = Heading(isoformat(d))})

\* C4: after one or more runs of the daily script for the same date with the same
\* commits, the month file holds exactly one heading line of that date, and a
\* second run leaves the file as the first run left it.
C4_OneSectionPerDay ==
    (runs >= 1 /\ outcome = "updated") =>
        /\ HeadingLines(file, argDay) = 1
        /\ runs >= 2 => file = file1[2]

----------------------------------------------------------------------------
(* scripts/generate_worklog.py, from the command line: get_commits, month mode
   and day mode.  Instants are counted in hours from 2026-01-01 00:00 UTC; the
   author date git prints stands for the commit time git selects by. *)

SOH == "<SOH>"

\* %ad under --date=iso-strict
IsoStrict(dt) ==
    isoformat(dt.day) \o <<"T">> \o TwoDigits(dt.hour) \o <<":00:00">>
        \o <<(IF dt.off < 0 THEN "-" ELSE "+")>>
        \o TwoDigits(IF dt.off < 0 THEN 0 - dt.off ELSE dt.off) \o <<":00">>

\* one record of --pretty=format:%H%x01%ad%x01%an%x01%s
GitLogRecord(c) ==
    c.sha \o <<SOH>> \o IsoStrict(c.date) \o <<SOH>> \o c.author \o <<SOH>> \o c.message

\* datetime.fromisoformat of a date git printed
fromisoformat(s) ==
    [day |-> DigitsVal(SubSeq(s, 2, 3)),
     hour |-> DigitsVal(SubSeq(s, 5, 6)),
     off |-> (IF s[8] = "-" THEN -1 ELSE 1) * DigitsVal(SubSeq(s, 9, 10))]

Instant(dt) == (dt.day - 1) * 24 + dt.hour - dt.off

\* the records `git log --since=<since> --until=<until>` prints: both ends belong
\* to the range
GitLog(since, until) ==
    With(SelectSeq(repo, LAMBDA c : since <= Instant(c.date) /\ Instant(c.date) <= until),
         LAMBDA sel : [k \in 1..Len(sel) |-> GitLogRecord(sel[k])])

\* the loop of get_commits over the lines of the output
ParseLog(out) ==
    With(SelectSeq([k \in 1..Len(out) |-> Split(out[k], SOH, Len(out[k]))],
                   LAMBDA parts : Len(parts) >= 4),
         LAMBDA recs : [k \in 1..Len(recs) |->
                           [sha |-> recs[k][1], date |-> fromisoformat(recs[k][2]),
                            author |-> recs[k][3], message |-> recs[k][4]]])

\* Mutant: a failed query is taken for an empty history.
get_commits_quiet(since, until) ==
    IF ~gitLogOk THEN [ok |-> TRUE, commits |-> <<>>]
    ELSE [ok |-> TRUE, commits |-> With(GitLog(since, until), ParseLog)]

\* get_commits: run_git raises when git exits with an error
get_commits(since, until) ==
    IF ~gitLogOk THEN [ok |-> FALSE, commits |-> <<>>]
    ELSE [ok |-> TRUE, commits |-> With(GitLog(since, until), ParseLog)]

\* month_range(2026, 1), in hours
month_range == [start |-> 0, end |-> 31 * 24]

\* the range of day mode: midnight UTC of the day, and one day later
day_range(d) == [start |-> (d - 1) * 24, end |-> d * 24]

build_month_summary(st) ==
    <<"![commits](https://img.shields.io/badge/commits-">> \o Str(st.commits)
        \o <<"-blue?style=flat-square)", " ">>
    \o <<"![files](https://img.shields.io/badge/files-">> \o Str(st.files_changed)
        \o <<"-informational?style=flat-square)", " ">>
    \o <<"![+ins](https://img.shields.io/badge/insertions-%2B">> \o Str(st.insertions)
        \o <<"-brightgreen?style=flat-square)", " ">>
    \o <<"![\\-del](https://img.shields.io/badge/deletions-%2D">> \o Str(st.deletions)
        \o <<"-red?style=flat-square)">>
    \o <<NL, NL>>
    \o <<NL, "**Monthly Totals**", NL, NL, "| Metric | Value |", NL, "|---:|---:|", NL>>
    \o <<"| Commits | ">> \o Str(st.commits) \o <<" |", NL>>
    \o <<"| Files changed | ">> \o Str(st.files_changed) \o <<" |", NL>>
    \o <<"| Insertions | +">> \o Str(st.insertions) \o <<" |", NL>>
    \o <<"| Deletions | -">> \o Str(st.deletions) \o <<" |", NL, NL>>

\* c["date"].astimezone().date(), a day of January 2026
local_date(c) == astimezone(c.date).day

RECURSIVE FirstSeenDays(_)
\* Mutant: the dates in the order the commits bring them.
FirstSeenDays(commits) ==
    IF commits = <<>> THEN <<>>
    ELSE With(FirstSeenDays(SubSeq(commits, 1, Len(commits) - 1)),
              LAMBDA ds : IF \E k \in 1..Len(ds) : ds[k] = local_date(commits[Len(commits)])
                          THEN ds
                          ELSE Append(ds, local_date(commits[Len(commits)])))

\* sorted(groups.keys())
SortedDays(commits) == SortedSeq({local_date(commits[k]) : k \in 1..Len(commits)})

\* groups[day]
Group(commits, day) == SelectSeq(commits, LAMBDA c : local_date(c) = day)

MonthSection(day, group) ==
    Heading(isoformat(day)) \o <<NL, NL>> \o Bullets(group) \o DetailsHeading \o Details(group)

\* The text build_markdown returns when no changed-files query fails.
build_markdown(commits) ==
    format_month_header(load_template) \o <<NL>>
    \o With(compute_stats_for_commits(commits), build_month_summary)
    \o With(SortedDays(commits),
            LAMBDA days : Concat([k \in 1..Len(days) |->
                                     MonthSection(days[k], Group(commits, days[k]))]))
    \o assets_markdown_for_month(find_assets_for_month)

Aborted == [outcome |-> "CalledProcessError", printed |-> "none", exists |-> fileExists,
            text |-> file, rendered |-> <<>>]

\* main, month mode: the file is written whatever the query returned
main_month ==
    With(get_commits(month_range.start, month_range.end),
         LAMBDA q :
            IF ~q.ok \/ FilesQueryFails(q.commits) THEN Aborted
            ELSE With(build_markdown(q.commits),
                      LAMBDA content :
                         [outcome |-> "wrote",
                          printed |-> IF q.commits = <<>>
                                      THEN "No commits found for the month."
                                      ELSE "none",
                          exists |-> TRUE, text |-> content, rendered |-> content]))

\* main, day mode: the section is built and put in the file whatever the query
\* returned
main_day(d) ==
    With(get_commits(day_range(d).start, day_range(d).end),
         LAMBDA q :
            IF ~q.ok \/ FilesQueryFails(q.commits) THEN Aborted
            ELSE With(build_day_markdown(d, q.commits),
                      LAMBDA content :
                         With(update_day_in_file(d, content),
                              LAMBDA r :
                                 [outcome |-> r.outcome,
                                  printed |-> IF q.commits = <<>>
                                              THEN "No commits found for"
                                              ELSE "none",
                                  exists |-> r.exists, text |-> r.text,
                                  rendered |-> content])))

\* the author dates of the commits of a run: late on day 2 west of Greenwich,
\* the first hour of day 3 east of it, and the middle of day 3
MainTimes == {[day |-> 2, hour |-> 23, off |-> -1],
              [day |-> 3, hour |-> 0, off |-> 1],
              [day |-> 3, hour |-> 10, off |-> 0]}

MainFile ==
    ExistingHeader \o Heading(isoformat(2)) \o <<NL, NL>> \o OldBody
                   \o Heading(isoformat(3)) \o <<NL, NL>> \o KeptBody

InitMain ==
    /\ fileExists \in BOOLEAN
    /\ file = (IF fileExists THEN MainFile ELSE <<>>)
    /\ template = NoFile
    /\ assets = {AssetNames[2]}
    /\ argDay \in {2, 3}
    /\ repo \in {cs \in CommitSeqs({<<"x">>}, {2, 3}, {0, 10, 23}, {-1, 0, 1}) :
                    \A k \in 1..Len(cs) : cs[k].date \in MainTimes}
    /\ gitLogOk \in BOOLEAN
    /\ \E fa \in {FilesFail, FilesOk(<<>>), FilesOk(<<FileA>>)} :
          filesOf = [s \in Shas |-> IF s = ShaA THEN fa ELSE FilesOk(<<FileB>>)]
    /\ statOf = [s \in Shas |-> StatOk(1, 2, 0)]
    /\ bodyOf = [s \in Shas |-> BodyOk(<<>>)]
    /\ authorFilter = <<>>
    /\ localTz \in {-1, 0, 1}
    /\ dayContent = <<>>
    /\ mode = "none"
    /\ runs = 0
    /\ outcome = "none"
    /\ printed = "none"
    /\ rendered = <<>>
    /\ file0 = <<fileExists, file>>
    /\ file1 = <<fileExists, file>>
    /\ stats = NoStats

Ran(r, m) ==
    /\ fileExists' = r.exists
    /\ file' = r.text
    /\ outcome' = r.outcome
    /\ printed' = r.printed
    /\ rendered' = r.rendered
    /\ file1' = <<r.exists, r.text>>
    /\ file0' = <<fileExists, file>>
    /\ mode' = m
    /\ runs' = runs + 1
    /\ UNCHANGED <<template, assets, repo, gitLogOk, filesOf, statOf, bodyOf,
                   authorFilter, localTz, argDay, dayContent, stats>>

MainMonth == runs = 0 /\ \E r \in {main_month} : Ran(r, "month")

MainDay == runs = 0 /\ \E r \in {main_day(argDay)} : Ran(r, "day")

NextMain == MainMonth \/ MainDay

SpecMain == InitMain /\ [][NextMain]_vars

----------------------------------------------------------------------------
(* The claims on a run of generate_worklog.py, stated on the repository and on
   the month file read line by line *)

\* the commits of the repository in the range the run asks for, in the order git
\* lists them
Asked ==
    SelectSeq(repo, LAMBDA c : \/ mode # "day"
                               \/ /\ (argDay - 1) * 24 <= Instant(c.date)
                                  /\ Instant(c.date) <= argDay * 24)

\* the day of January on which the commit was made, by the machine's clock
LocalDay(c) ==
    CHOOSE d \in 1..31 : /\ (d - 1) * 24 <= Instant(c.date) + localTz
                         /\ Instant(c.date) + localTz < d * 24

FileUntouched == <<fileExists, file>> = file0

FileWritten == outcome \in {"wrote", "created", "replaced", "appended"}

\* the lines "- <short hash> <emdash> ..." of a text, by the index they start at
CommitBullets(t) ==
    {i \in 1..Len(t) : /\ AtLineStart(t, i)
                       /\ StartsWithAt(t, i, <<"-", " ">>)
                       /\ i + 2 + ShortLen <= Len(t)
                       /\ t[i + 2 + ShortLen] = DashTok}

\* the short hashes of those lines, top to bottom
BulletShas(t) ==
    With(SortedSeq(CommitBullets(t)),
         LAMBDA at : [k \in 1..Len(at) |-> SubSeq(t, at[k] + 2, at[k] + 1 + ShortLen)])

ShortShas(commits) == [k \in 1..Len(commits) |-> Take(commits[k].sha, ShortLen)]

\* the commit has a line in the first section headed by day d
ListedUnder(t, c, d) ==
    \E k \in 1..Len(BulletShas(DaySection(t, d))) :
        BulletShas(DaySection(t, d))[k] = Take(c.sha, ShortLen)

\* the sections of a text, top to bottom
SectionsOf(t) ==
    With(SectionStarts(t),
         LAMBDA starts :
            With(SortedSeq(starts),
                 LAMBDA at : [k \in 1..Len(at) |->
                                SubSeq(t, at[k], NextStart(t, starts, at[k]) - 1)]))

\* the day a section is headed by, or 0 when its first line is no dated heading
HeadingDay(sec) ==
    With({d \in 1..31 : LineAt(sec, 1) = Heading(isoformat(d))},
         LAMBDA ds : IF ds = {} THEN 0 ELSE Min(ds))

ZeroStats == "**Stats:** 0 commits <emdash> 0 files changed <emdash> +0 / -0"

\* C5 as stated: when the commit query fails or lists no commit, the run gives a
\* diagnostic (a message, or the error it ends with) and the month file is as it
\* was before the run.
C5_NoCommitsNoWrite ==
    (runs >= 1 /\ (~gitLogOk \/ Asked = <<>>)) =>
        /\ FileUntouched
        /\ (printed # "none" \/ outcome = "CalledProcessError")

\* C5 amended: when the commit query fails the run ends with the error of the git
\* command and the month file is as it was; when the query lists no commit the
\* run prints "No commits found ..." and still writes: month mode writes a file
\* with the zero-valued summary and no dated section, day mode leaves the
\* section of the day with the zero-commit stats line.
C5_FailureAbortsEmptyWrites ==
    runs >= 1 =>
        /\ ~gitLogOk => (outcome = "CalledProcessError" /\ FileUntouched)
        /\ (gitLogOk /\ Asked = <<>>) =>
              /\ printed # "none"
              /\ FileWritten
              /\ fileExists
              /\ mode = "month" =>
                    /\ SectionStarts(file) = {}
                    /\ FindSub(file, 1, <<"| Commits | ", "0", " |", NL>>) # 0
              /\ mode = "day" =>
                    StartsWithAt(DaySection(file, argDay), 1,
                                 Heading(isoformat(argDay)) \o <<NL, NL, ZeroStats, NL>>)

\* C5 witness: day mode found no commit in the range of the day, in a repository
\* that holds a commit, and replaced the section the file held for the day.
C5_Witness ==
    /\ runs >= 1
    /\ mode = "day"
    /\ gitLogOk
    /\ repo # <<>>
    /\ Asked = <<>>
    /\ outcome = "replaced"
    /\ file # file0[2]

\* C6: when the changed-files query fails for a commit of the run, the run still
\* writes the month file, and the file shows "Files: (none)".
C6_FilesFailureTolerated ==
    (runs >= 1 /\ gitLogOk /\ \E k \in 1..Len(Asked) : ~filesOf[Asked[k].sha].ok) =>
        /\ FileWritten
        /\ FindSub(file, 1, <<"Files: (none)">>) # 0

\* C7: the file month mode writes holds one dated section per local date of the
\* commits, in strictly ascending order of date, and each section lists the
\* commits of its date in the order git listed them (once in the summary, once
\* in the details).
C7_SectionsAscending ==
    (runs >= 1 /\ mode = "month" /\ FileWritten) =>
        \E secs \in {SectionsOf(file)} :
            /\ \A k \in 1..Len(secs) : HeadingDay(secs[k]) # 0
            /\ \A j, k \in 1..Len(secs) : j < k => HeadingDay(secs[j]) < HeadingDay(secs[k])
            /\ {HeadingDay(secs[k]) : k \in 1..Len(secs)}
                  = {LocalDay(Asked[k]) : k \in 1..Len(Asked)}
            /\ \A k \in 1..Len(secs) :
                  \E mine \in {ShortShas(SelectSeq(Asked,
                                   LAMBDA c : LocalDay(c) = HeadingDay(secs[k])))} :
                      BulletShas(secs[k]) = mine \o mine

\* C7 witness: month mode wrote two sections for two commits that git listed the
\* later date first.
C7_Witness ==
    /\ runs >= 1
    /\ mode = "month"
    /\ FileWritten
    /\ Len(Asked) = 2
    /\ LocalDay(Asked[1]) > LocalDay(Asked[2])
    /\ Len(SectionsOf(file)) = 2

\* C8 as stated: month mode lists every commit under the heading of the date its
\* timestamp shows in its own offset, whatever the time zone of the machine.
C8_OwnOffsetDate ==
    (runs >= 1 /\ mode = "month" /\ FileWritten) =>
        \A k \in 1..Len(Asked) : ListedUnder(file, Asked[k], Asked[k].date.day)

\* C8 amended: month mode lists every commit under the heading of the date of its
\* instant on the clock of the machine that runs the script, and under no
\* other heading.
C8_MachineLocalDate ==
    (runs >= 1 /\ mode = "month" /\ FileWritten) =>
        \A k \in 1..Len(Asked) :
            \A d \in 1..31 : ListedUnder(file, Asked[k], d) <=> d = LocalDay(Asked[k])

\* C8 witness: month mode wrote a commit whose date in its own offset is not its
\* date on the machine's clock.
C8_Witness ==
    /\ runs >= 1
    /\ mode = "month"
    /\ FileWritten
    /\ \E k \in 1..Len(Asked) : Asked[k].date.day # LocalDay(Asked[k])

\* C10: in the section day mode leaves for the day, every "Date:" line shows the
\* date of the heading.
C10_DateLinesMatchHeading ==
    (runs >= 1 /\ mode = "day" /\ FileWritten) =>
        \E sec \in {DaySection(file, argDay)} :
            \A i \in 1..Len(sec) :
                sec[i] = "Date: " => StartsWithAt(sec, i + 1, isoformat(argDay))

----------------------------------------------------------------------------
(* Specification SpecStats: compute_stats_for_commits on a sequence of commits,
   each with the short-stat line git prints for it, or a failing query *)

StatChoices ==
    {StatFail, StatOk(0, 0, 0)}
        \cup {StatOk(f, i, d) : f \in {1, 12}, i \in {0, 1, 5}, d \in {0, 1}}

InitStats ==
    /\ fileExists = FALSE
    /\ file = <<>>
    /\ template = NoFile
    /\ assets = {}
    /\ argDay = 2
    /\ repo \in UNION {[1..n -> {Commit(sha, 2, 10, 0, <<"x">>) : sha \in Shas}] :
                         n \in 0..MaxCommits}
    /\ gitLogOk = TRUE
    /\ filesOf = [s \in Shas |-> FilesOk(<<>>)]
    /\ statOf \in [Shas -> StatChoices]
    /\ bodyOf = [s \in Shas |-> BodyOk(<<>>)]
    /\ authorFilter = <<>>
    /\ localTz = 0
    /\ dayContent = <<>>
    /\ mode = "none"
    /\ runs = 0
    /\ outcome = "none"
    /\ printed = "none"
    /\ rendered = <<>>
    /\ file0 = <<fileExists, file>>
    /\ file1 = <<fileExists, file>>
    /\ stats = NoStats

ComputeStats ==
    /\ runs = 0
    /\ stats' = compute_stats_for_commits(repo)
    /\ outcome' = "returned"
    /\ runs' = runs + 1
    /\ UNCHANGED <<fileExists, file, template, assets, repo, gitLogOk, filesOf, statOf,
                   bodyOf, authorFilter, localTz, argDay, dayContent, mode, printed,
                   rendered, file0, file1>>

NextStats == ComputeStats

SpecStats == InitStats /\ [][NextStats]_vars

\* what the commit adds to a total: the number git printed, 0 for a failed query
Counted(c, field) ==
    IF ~statOf[c.sha].ok THEN 0
    ELSE IF field = "files" THEN statOf[c.sha].files
    ELSE IF field = "ins" THEN statOf[c.sha].ins
    ELSE statOf[c.sha].del

RECURSIVE Total(_, _)
Total(commits, field) ==
    IF commits = <<>> THEN 0
    ELSE Counted(Head(commits), field) + Total(Tail(commits), field)

\* C9: the statistics of a sequence of commits are its length and the sums of the
\* files, insertions and deletions git printed for each commit, a clause git
\* left out counting 0 and a failed query counting 0 for all three.
C9_StatsAreSums ==
    runs >= 1 =>
        stats = [commits |-> Len(repo),
                 files_changed |-> Total(repo, "files"),
                 insertions |-> Total(repo, "ins"),
                 deletions |-> Total(repo, "del")]

\* C9 witness: two commits, the query of the first failed and the line of the
\* second has no insertions clause; the totals are those of the second.
C9_Witness ==
    /\ runs >= 1
    /\ Len(repo) = 2
    /\ ~statOf[repo[1].sha].ok
    /\ statOf[repo[2].sha].ok
    /\ statOf[repo[2].sha].files = 1
    /\ statOf[repo[2].sha].ins = 0
    /\ statOf[repo[2].sha].del = 1
    /\ stats.files_changed = 1
    /\ stats.deletions = 1

====
